---- MODULE Spec2Model ----
(***************************************************************************)
(* Model of library/stow.py: the Ansible module that drives GNU stow with  *)
(* a dry-run, an optional purge of conflicting files, and a commit, for    *)
(* every package of a list.                                                *)
(*                                                                         *)
(* Text (the stderr of stow, a path before it is rendered) is a sequence   *)
(* of tokens; a token is a non-empty piece of text.  The tokens the code   *)
(* looks at are each a token of their own: the conflict marker, ':', '/',  *)
(* the newline and the blank.  Render turns a text into the string it      *)
(* stands for.                                                             *)
(***************************************************************************)
EXTENDS Integers, Sequences, FiniteSets, TLC

VARIABLES
    state,        \* params['state']
    package,      \* params['package'], the list of packages
    target,       \* params['target'], a text
    fs,           \* the filesystem under the target: path -> kind of entry
    pc,           \* position of the program
    idx,          \* index in package of the package the loop of main is at
    cmd,          \* the base command stow() built for the current package
    run,          \* (rc, stderr) of the last run_command while in scope
    conflict,     \* what stow_has_conflicts returned for the current package
    purge_i,      \* position of purge_conflicts in conflict['files']
    ret,          \* what stow() returned for the current package
    has_changed,  \* has_changed of main
    result,       \* what the module reported: fail_json or exit_json
    calls,        \* history: every external call made so far, in order
    outcomes,     \* history: the report and the return of stow(), per package
    fs0           \* history: the filesystem when stow() was entered

vars == <<state, package, target, fs, pc, idx, cmd, run, conflict,
          purge_i, ret, has_changed, result, calls, outcomes, fs0>>

-----------------------------------------------------------------------------
(* Bounds *)

MaxPkgs == 2      \* longest package list
MaxRc == 3        \* exit codes are 0..MaxRc
MaxLen == 4       \* longest stderr text, in tokens, of the parser's inputs
MaxLines == 2     \* most conflict lines of a stderr text of the oracle

-----------------------------------------------------------------------------
(* Text *)

Marker == "* existing target is"

BoundedSeq(S, n) == UNION {[1..k -> S] : k \in 0..n}

RECURSIVE Render(_)
Render(s) == IF s = <<>> THEN "" ELSE Head(s) \o Render(Tail(s))

\* str.split(sep): the pieces between the separators, empty pieces kept
RECURSIVE split(_, _)
split(s, sep) ==
    IF \A i \in 1..Len(s) : s[i] # sep
    THEN <<s>>
    ELSE LET k == CHOOSE i \in 1..Len(s) :
                      s[i] = sep /\ \A j \in 1..(i - 1) : s[j] # sep
         IN  <<SubSeq(s, 1, k - 1)>> \o split(SubSeq(s, k + 1, Len(s)), sep)

IsSpace(t) == t \in {" ", "\t", "\n", "\r"}

\* str.strip(): leading and trailing whitespace removed
RECURSIVE strip(_)
strip(s) ==
    IF s = <<>> THEN s
    ELSE IF IsSpace(s[1]) THEN strip(Tail(s))
    ELSE IF IsSpace(s[Len(s)]) THEN strip(SubSeq(s, 1, Len(s) - 1))
    ELSE s

\* os.path.join(a, b) of posixpath
PathJoin(a, b) ==
    IF b # <<>> /\ b[1] = "/" THEN b
    ELSE IF a = <<>> \/ a[Len(a)] = "/" THEN a \o b
    ELSE a \o <<"/">> \o b

\* sel contains the marker
HasMarker(sel) == \E i \in 1..Len(sel) : sel[i] = Marker

\* ', '.join(f'"{f}"' for f in conflicts)
RECURSIVE JoinQuoted(_)
JoinQuoted(fl) ==
    IF fl = <<>> THEN ""
    ELSE IF Len(fl) = 1 THEN "\"" \o fl[1] \o "\""
    ELSE "\"" \o fl[1] \o "\", " \o JoinQuoted(Tail(fl))

-----------------------------------------------------------------------------
(* stow_has_conflicts: the parser of the dry-run's result *)

None == [none |-> TRUE]

\* the path of one marker line, the strip() forgotten
ConflictPathNoStrip(tgt, sel) ==
    Render(PathJoin(tgt, split(sel, ":")[Len(split(sel, ":"))]))

\* the path of one marker line
ConflictPath(tgt, sel) ==
    Render(PathJoin(tgt, strip(split(sel, ":")[Len(split(sel, ":"))])))

\* a loop that drops a path it has already
RECURSIVE GrabConflictsUnique(_, _)
GrabConflictsUnique(tgt, stderr_lines) ==
    IF stderr_lines = <<>> THEN <<>>
    ELSE LET rest == GrabConflictsUnique(tgt, Tail(stderr_lines))
             path == ConflictPath(tgt, Head(stderr_lines))
         IN  IF HasMarker(Head(stderr_lines))
                /\ \A i \in 1..Len(rest) : rest[i] # path
             THEN <<path>> \o rest
             ELSE rest

\* the loop over stderr_lines
RECURSIVE GrabConflicts(_, _)
GrabConflicts(tgt, stderr_lines) ==
    IF stderr_lines = <<>> THEN <<>>
    ELSE (IF HasMarker(Head(stderr_lines))
          THEN <<ConflictPath(tgt, Head(stderr_lines))>>
          ELSE <<>>) \o GrabConflicts(tgt, Tail(stderr_lines))

ConflictMsg(pkg, tgt, conflicts) ==
    "unable to stow package \"" \o pkg \o "\" to \"" \o Render(tgt) \o "\";"
        \o " conflicted files: " \o JoinQuoted(conflicts)

DirectoryConflict ==
    [recoverable |-> FALSE, message |-> "conflicting directory found"]

\* a parser that takes a failure without marker lines as unrecoverable
ParseConflictsStrict(pkg, tgt, r, se) ==
    IF r = 0 THEN None
    ELSE IF r = 2 THEN DirectoryConflict
    ELSE LET conflicts == GrabConflicts(tgt, split(se, "\n"))
         IN  IF conflicts = <<>>
             THEN [recoverable |-> FALSE, message |-> "stow failed"]
             ELSE [recoverable |-> TRUE,
                   message |-> ConflictMsg(pkg, tgt, conflicts),
                   files |-> conflicts]

\* what stow_has_conflicts returns for the exit code r and the stderr se
ParseConflicts(pkg, tgt, r, se) ==
    IF r = 0 THEN None
    ELSE IF r = 2 THEN DirectoryConflict
    ELSE LET conflicts == GrabConflicts(tgt, split(se, "\n"))
         IN  [recoverable |-> TRUE,
              message |-> ConflictMsg(pkg, tgt, conflicts),
              files |-> conflicts]

-----------------------------------------------------------------------------
(* Parameters and the filesystem *)

States == {"absent", "present", "latest", "supress"}
Packages == {"pkgA", "pkgB"}
Home == <<"/", "home", "/", "u">>
Targets == {Home, Home \o <<"/">>}
StowBin == "/usr/bin/stow"
StowDir == "/home/u/dotfiles"

\* the one file each package holds, relative to the target
PkgFile(pkg) == IF pkg = "pkgA" THEN ".bashrc" ELSE ".vimrc"
PathOf(tgt, f) == Render(PathJoin(tgt, <<f>>))
Paths == {PathOf(Home, PkgFile(p)) : p \in Packages}

\* "none": no entry; "file", "link", "dir": an entry stow does not own;
\* "stow": the link stow made for the package
Kinds == {"none", "file", "link", "dir", "stow"}
KindAt(f, path) == IF path \in DOMAIN f THEN f[path] ELSE "none"

\* os.path.islink(file)
IsLink(f, path) == KindAt(f, path) \in {"link", "stow"}

\* a removal that passes over a path that is not there
RemoveFailsIgnoresMissing(f, path, denied) ==
    denied \/ KindAt(f, path) = "dir"

\* os.unlink / os.remove raise: no entry, a directory, or no permission
RemoveFails(f, path, denied) ==
    denied \/ KindAt(f, path) \in {"none", "dir"}
RemoveError(f, path, denied) ==
    IF KindAt(f, path) = "none"
    THEN "[Errno 2] No such file or directory: '" \o path \o "'"
    ELSE IF KindAt(f, path) = "dir"
    THEN "[Errno 21] Is a directory: '" \o path \o "'"
    ELSE "[Errno 13] Permission denied: '" \o path \o "'"
Removed(f, path) ==
    IF path \in DOMAIN f THEN [f EXCEPT ![path] = "none"] ELSE f

-----------------------------------------------------------------------------
(* stow(): the command *)

\* 'supress' left out of the states that stow
FlagNoSupress(st) ==
    IF st = "present" THEN "--stow"
    ELSE IF st = "absent" THEN "--delete"
    ELSE IF st = "latest" THEN "--restow"
    ELSE ""

Flag(st) ==
    IF st \in {"present", "supress"} THEN "--stow"
    ELSE IF st = "absent" THEN "--delete"
    ELSE IF st = "latest" THEN "--restow"
    ELSE ""

Cmd(st, pkg, tgt) ==
    StowBin \o " " \o Flag(st) \o " " \o pkg \o " --target=" \o Render(tgt)
        \o " --dir=" \o StowDir \o " --verbose"
\* the dry-run flag forgotten
DryCmdNoFlag(c) == c

DryCmd(c) == c \o " --no"

CommitFailMsg(c, r, se) ==
    "execution of command \"" \o c \o "\" failed with error code "
        \o ToString(r) \o ";" \o " output: \"" \o Render(se) \o "\""

PurgeFailMsg(path, errtext) ==
    "unable to purge file \"" \o path \o "\"; error: " \o errtext

-----------------------------------------------------------------------------
(* The oracle: GNU stow behind run_command *)

RCs == 0..MaxRc

ConflictLine(f) ==
    <<" ", " ", Marker, " ", "neither a link nor a directory", ":", " ", f>>
WarningLine == <<"WARNING! stowing would cause conflicts", ":">>
ConflictLines == {ConflictLine(PkgFile(p)) : p \in Packages}

RECURSIVE JoinLines(_)
JoinLines(ls) ==
    IF ls = <<>> THEN <<>>
    ELSE IF Len(ls) = 1 THEN ls[1]
    ELSE ls[1] \o <<"\n">> \o JoinLines(Tail(ls))

\* the stderr texts stow is taken to print on a dry-run
DryRunTexts ==
    {<<>>} \cup {JoinLines(<<WarningLine>> \o ls) :
                    ls \in BoundedSeq(ConflictLines, MaxLines)}
\* and on a commit: nothing, or what it did
CommitTexts == {<<>>, <<"LINK", ":", " ", ".bashrc">>}

\* what a commit that exits 0 leaves on the filesystem
OracleApply(flag, pkg, tgt, f) ==
    LET path == PathOf(tgt, PkgFile(pkg))
    IN  IF flag \in {"--stow", "--restow"} /\ KindAt(f, path) = "none"
        THEN [f EXCEPT ![path] = "stow"]
        ELSE IF flag = "--delete" /\ KindAt(f, path) = "stow"
        THEN [f EXCEPT ![path] = "none"]
        ELSE f

-----------------------------------------------------------------------------
(* main() and stow(), step by step *)

Truthy(d) == d # None

Init ==
    /\ state \in States
    /\ package \in BoundedSeq(Packages, MaxPkgs)
    /\ target = Home
    /\ fs \in [Paths -> Kinds]
    /\ pc = "main"
    /\ idx = 0
    /\ cmd = ""
    /\ run = None
    /\ conflict = None
    /\ purge_i = 0
    /\ ret = None
    /\ has_changed = FALSE
    /\ result = None
    /\ calls = <<>>
    /\ outcomes = <<>>
    /\ fs0 = fs

Call(op, arg) == [op |-> op, arg |-> arg, idx |-> idx]

\* for package in list(params['package']): ret = stow(...), up to the command
MainLoop ==
    /\ pc = "main"
    /\ idx < Len(package)
    /\ idx' = idx + 1
    /\ cmd' = Cmd(state, package[idx + 1], target)
    /\ conflict' = None
    /\ ret' = None
    /\ purge_i' = 0
    /\ fs0' = fs
    /\ pc' = "dryrun"
    /\ UNCHANGED <<state, package, target, fs, run, has_changed, result,
                   calls, outcomes>>

\* an exit that reports nothing
MainExitSilent ==
    /\ pc = "main"
    /\ idx >= Len(package)
    /\ pc' = "exited"
    /\ UNCHANGED <<state, package, target, fs, idx, cmd, run, conflict,
                   purge_i, ret, has_changed, result, calls, outcomes, fs0>>

\* module.exit_json(changed=has_changed)
MainExit ==
    /\ pc = "main"
    /\ idx >= Len(package)
    /\ result' = [failed |-> FALSE, changed |-> has_changed]
    /\ pc' = "exited"
    /\ UNCHANGED <<state, package, target, fs, idx, cmd, run, conflict,
                   purge_i, ret, has_changed, calls, outcomes, fs0>>

\* conflict = stow_has_conflicts(module, package, cmd), the oracle answering
\* with exit code r and stderr se
StowHasConflicts(r, se) ==
    /\ pc = "dryrun"
    /\ run' = [rc |-> r, stderr |-> se]
    /\ conflict' = ParseConflicts(package[idx], target, r, se)
    /\ calls' = Append(calls, Call("run_command", DryCmd(cmd)))
    /\ pc' = "conflict"
    /\ UNCHANGED <<state, package, target, fs, idx, cmd, purge_i, ret,
                   has_changed, result, outcomes, fs0>>

\* the test of the state forgotten
FailsOnConflictIgnoresState(st, c) == ~c.recoverable

\* state != 'supress' or not conflict['recoverable']
FailsOnConflict(st, c) == st # "supress" \/ ~c.recoverable

\* a return that does not carry the report's message
ConflictRetGeneric(c) == [error |-> TRUE, message |-> "conflict found"]

\* return {'error': True, 'message': conflict['message']}
ConflictRet(c) == [error |-> TRUE, message |-> c.message]

\* if conflict: if ...: return {'error': True, ...}, else on to the purge
ConflictBranch ==
    /\ pc = "conflict"
    /\ run' = None
    /\ IF Truthy(conflict)
       THEN IF FailsOnConflict(state, conflict)
            THEN /\ ret' = ConflictRet(conflict)
                 /\ pc' = "ret"
                 /\ purge_i' = purge_i
            ELSE /\ purge_i' = 1
                 /\ pc' = "purge"
                 /\ ret' = ret
       ELSE /\ pc' = "commit"
            /\ UNCHANGED <<ret, purge_i>>
    /\ UNCHANGED <<state, package, target, fs, idx, cmd, conflict,
                   has_changed, result, calls, outcomes, fs0>>

\* a loop that swallows the error and goes on to the next file
PurgeOneContinues(denied) ==
    /\ pc = "purge"
    /\ purge_i <= Len(conflict.files)
    /\ LET file == conflict.files[purge_i]
       IN  /\ calls' = Append(calls,
                  Call(IF IsLink(fs, file) THEN "unlink" ELSE "remove", file))
           /\ fs' = IF RemoveFails(fs, file, denied) THEN fs
                    ELSE Removed(fs, file)
           /\ purge_i' = purge_i + 1
           /\ UNCHANGED <<ret, pc>>
    /\ UNCHANGED <<state, package, target, idx, cmd, run, conflict,
                   has_changed, result, outcomes, fs0>>

\* one turn of the loop of purge_conflicts, the removal failing when denied
PurgeOne(denied) ==
    /\ pc = "purge"
    /\ purge_i <= Len(conflict.files)
    /\ LET file == conflict.files[purge_i]
       IN  /\ calls' = Append(calls,
                  Call(IF IsLink(fs, file) THEN "unlink" ELSE "remove", file))
           /\ IF RemoveFails(fs, file, denied)
              THEN /\ ret' = [error |-> TRUE,
                              message |-> PurgeFailMsg(file,
                                             RemoveError(fs, file, denied))]
                   /\ pc' = "ret"
                   /\ UNCHANGED <<fs, purge_i>>
              ELSE /\ fs' = Removed(fs, file)
                   /\ purge_i' = purge_i + 1
                   /\ UNCHANGED <<ret, pc>>
    /\ UNCHANGED <<state, package, target, idx, cmd, run, conflict,
                   has_changed, result, outcomes, fs0>>

\* a purge that is followed by a second dry-run
PurgeDoneRetries ==
    /\ pc = "purge"
    /\ purge_i > Len(conflict.files)
    /\ pc' = "dryrun"
    /\ UNCHANGED <<state, package, target, fs, idx, cmd, run, conflict,
                   purge_i, ret, has_changed, result, calls, outcomes, fs0>>

\* a purge whose success is returned as the conflict
PurgeDoneReturnsConflict ==
    /\ pc = "purge"
    /\ purge_i > Len(conflict.files)
    /\ ret' = [error |-> TRUE, message |-> conflict.message]
    /\ pc' = "ret"
    /\ UNCHANGED <<state, package, target, fs, idx, cmd, run, conflict,
                   purge_i, has_changed, result, calls, outcomes, fs0>>

\* purge_conflicts returns None
PurgeDone ==
    /\ pc = "purge"
    /\ purge_i > Len(conflict.files)
    /\ pc' = "commit"
    /\ UNCHANGED <<state, package, target, fs, idx, cmd, run, conflict,
                   purge_i, ret, has_changed, result, calls, outcomes, fs0>>

\* the exit code of the commit not looked at
CommitRetIgnoresRc(c, r, se) == [error |-> FALSE, changed |-> (se # <<>>)]

\* every successful commit reported as a change
CommitRetAlwaysChanged(c, r, se) ==
    IF r # 0
    THEN [error |-> TRUE, message |-> CommitFailMsg(c, r, se)]
    ELSE [error |-> FALSE, changed |-> TRUE]

\* what stow() returns after the commit
CommitRet(c, r, se) ==
    IF r # 0
    THEN [error |-> TRUE, message |-> CommitFailMsg(c, r, se)]
    ELSE [error |-> FALSE, changed |-> (se # <<>>)]

\* rc, _, se = module.run_command(cmd), the oracle answering with r and se
Commit(r, se) ==
    /\ pc = "commit"
    /\ run' = [rc |-> r, stderr |-> se]
    /\ calls' = Append(calls, Call("run_command", cmd))
    /\ fs' = IF r = 0
             THEN OracleApply(Flag(state), package[idx], target, fs)
             ELSE fs
    /\ ret' = CommitRet(cmd, r, se)
    /\ pc' = "ret"
    /\ UNCHANGED <<state, package, target, idx, cmd, conflict, purge_i,
                   has_changed, result, outcomes, fs0>>

\* a fail_json that first puts the filesystem back as stow() found it
MainFailRollsBack ==
    /\ pc = "ret"
    /\ ret.error
    /\ result' = [failed |-> TRUE, msg |-> ret.message]
    /\ outcomes' = Append(outcomes, [conflict |-> conflict, ret |-> ret])
    /\ run' = None
    /\ fs' = fs0
    /\ pc' = "failed"
    /\ UNCHANGED <<state, package, target, idx, cmd, conflict, purge_i,
                   ret, has_changed, calls, fs0>>

\* a fail_json that returns to the loop
MainFailContinues ==
    /\ pc = "ret"
    /\ ret.error
    /\ result' = [failed |-> TRUE, msg |-> ret.message]
    /\ outcomes' = Append(outcomes, [conflict |-> conflict, ret |-> ret])
    /\ run' = None
    /\ pc' = "main"
    /\ UNCHANGED <<state, package, target, fs, idx, cmd, conflict, purge_i,
                   ret, has_changed, calls, fs0>>

\* if ret['error']: module.fail_json(msg=ret['message'])
MainFail ==
    /\ pc = "ret"
    /\ ret.error
    /\ result' = [failed |-> TRUE, msg |-> ret.message]
    /\ outcomes' = Append(outcomes, [conflict |-> conflict, ret |-> ret])
    /\ run' = None
    /\ pc' = "failed"
    /\ UNCHANGED <<state, package, target, fs, idx, cmd, conflict, purge_i,
                   ret, has_changed, calls, fs0>>

\* has_changed = ret['changed'], the earlier packages forgotten
MainAccumulateLast ==
    /\ pc = "ret"
    /\ ~ret.error
    /\ has_changed' = ret.changed
    /\ outcomes' = Append(outcomes, [conflict |-> conflict, ret |-> ret])
    /\ run' = None
    /\ pc' = "main"
    /\ UNCHANGED <<state, package, target, fs, idx, cmd, conflict, purge_i,
                   ret, result, calls, fs0>>

\* has_changed = has_changed or ret['changed']
MainAccumulate ==
    /\ pc = "ret"
    /\ ~ret.error
    /\ has_changed' = (has_changed \/ ret.changed)
    /\ outcomes' = Append(outcomes, [conflict |-> conflict, ret |-> ret])
    /\ run' = None
    /\ pc' = "main"
    /\ UNCHANGED <<state, package, target, fs, idx, cmd, conflict, purge_i,
                   ret, result, calls, fs0>>

\* the oracle and the filesystem answer in any way
DryRunAny ==
    pc = "dryrun" /\ \E r \in RCs, se \in DryRunTexts : StowHasConflicts(r, se)
PurgeAny ==
    pc = "purge" /\ \E denied \in BOOLEAN : PurgeOne(denied)
CommitAny ==
    pc = "commit" /\ \E r \in RCs, se \in CommitTexts : Commit(r, se)

Next ==
    \/ MainLoop
    \/ MainExit
    \/ DryRunAny
    \/ ConflictBranch
    \/ PurgeAny
    \/ PurgeDone
    \/ CommitAny
    \/ MainFail
    \/ MainAccumulate

Spec == Init /\ [][Next]_vars

-----------------------------------------------------------------------------
(* The parser on every short stderr text: stow() is entered for one        *)
(* package and the dry-run answers with any exit code and any text.        *)

ParserTokens == {Marker, ":", " ", "\n", "/", ".bashrc"}

\* two marker lines that carry the path right after the marker, no colon
BareMarkerText ==
    <<Marker, " ", ".bashrc", "\n", Marker, " ", ".vimrc">>

\* the two marker lines as stow prints them, the path after the colon
ColonMarkerText ==
    JoinLines(<<ConflictLine(".bashrc"), ConflictLine(".vimrc")>>)

ParserTexts ==
    BoundedSeq(ParserTokens, MaxLen) \cup DryRunTexts
        \cup {BareMarkerText, ColonMarkerText}

InitParser ==
    /\ state \in {"present", "supress"}
    /\ package \in {<<p>> : p \in Packages}
    /\ target \in Targets
    /\ fs = [p \in Paths |-> "none"]
    /\ pc = "main"
    /\ idx = 0
    /\ cmd = ""
    /\ run = None
    /\ conflict = None
    /\ purge_i = 0
    /\ ret = None
    /\ has_changed = FALSE
    /\ result = None
    /\ calls = <<>>
    /\ outcomes = <<>>
    /\ fs0 = fs

DryRunParser ==
    pc = "dryrun" /\ \E r \in RCs, se \in ParserTexts : StowHasConflicts(r, se)

NextParser == MainLoop \/ DryRunParser

SpecParser == InitParser /\ [][NextParser]_vars

-----------------------------------------------------------------------------
(* An idempotent oracle, as the comment above the commit describes stow:   *)
(* it does nothing and prints nothing when the package is already in the   *)
(* state asked for, and prints what it did otherwise.  Its answer is a     *)
(* function of the filesystem.                                             *)

AbortedLine == <<"All operations aborted.">>

OracleRc(flag, pkg, tgt, f) ==
    LET k == KindAt(f, PathOf(tgt, PkgFile(pkg)))
    IN  IF flag = "--delete" THEN 0
        ELSE IF k \in {"none", "stow"} THEN 0
        ELSE IF k = "dir" THEN 2
        ELSE 1

OracleStderr(flag, pkg, tgt, f) ==
    LET k == KindAt(f, PathOf(tgt, PkgFile(pkg)))
    IN  IF flag = "--delete"
        THEN IF k = "stow" THEN <<"UNLINK", ":", " ", PkgFile(pkg)>> ELSE <<>>
        ELSE IF k = "none" THEN <<"LINK", ":", " ", PkgFile(pkg)>>
        ELSE IF k = "stow" THEN <<>>
        ELSE JoinLines(<<WarningLine, ConflictLine(PkgFile(pkg)),
                         AbortedLine>>)

DryRunIdem ==
    StowHasConflicts(OracleRc(Flag(state), package[idx], target, fs),
                     OracleStderr(Flag(state), package[idx], target, fs))

CommitIdem ==
    Commit(OracleRc(Flag(state), package[idx], target, fs),
           OracleStderr(Flag(state), package[idx], target, fs))

NextIdem ==
    \/ MainLoop
    \/ MainExit
    \/ DryRunIdem
    \/ ConflictBranch
    \/ PurgeAny
    \/ PurgeDone
    \/ CommitIdem
    \/ MainFail
    \/ MainAccumulate

SpecIdem == Init /\ [][NextIdem]_vars

-----------------------------------------------------------------------------
(* Properties of the parser *)

\* the files of a report, none when the report has no 'files' key
FilesOf(d) == IF "files" \in DOMAIN d THEN d.files ELSE <<>>

\* the lines of a text, by the positions of its newlines
NewlinesAt(s) == {i \in 1..Len(s) : s[i] = "\n"}
LineStarts(s) == {1} \cup {i + 1 : i \in NewlinesAt(s)}
LineEnd(s, b) ==
    CHOOSE e \in NewlinesAt(s) \cup {Len(s) + 1} :
        e >= b /\ \A e2 \in NewlinesAt(s) \cup {Len(s) + 1} : e2 >= b => e <= e2
LineAt(s, b) == SubSeq(s, b, LineEnd(s, b) - 1)
MarkerLineStarts(s) ==
    {b \in LineStarts(s) : \E i \in b..(LineEnd(s, b) - 1) : s[i] = Marker}
Rank(S, b) == Cardinality({x \in S : x <= b})

\* what follows the last colon of a line, the whole line without a colon
Trailing(l) ==
    LET colons == {i \in 1..Len(l) : l[i] = ":"}
        last == IF colons = {} THEN 0
                ELSE CHOOSE i \in colons : \A j \in colons : j <= i
    IN  SubSeq(l, last + 1, Len(l))
\* a text without the whitespace around it
Trimmed(t) ==
    LET solid == {i \in 1..Len(t) : ~IsSpace(t[i])}
    IN  IF solid = {} THEN <<>>
        ELSE SubSeq(t, CHOOSE i \in solid : \A j \in solid : i <= j,
                       CHOOSE i \in solid : \A j \in solid : j <= i)
\* a segment under the target directory; an absolute segment stands alone
Joined(tgt, seg) ==
    IF seg # <<>> /\ seg[1] = "/" THEN Render(seg)
    ELSE Render(tgt) \o (IF tgt[Len(tgt)] = "/" THEN "" ELSE "/")
             \o Render(seg)

Parsed == pc = "conflict" /\ run # None
Generic == Parsed /\ run.rc \notin {0, 2}

\* C7: parser totality.  Exit code 0 gives no conflict whatever the text;
\* exit code 2 gives the unrecoverable "conflicting directory found" report
\* with no files whatever the text; any other exit code gives one file per
\* line that holds the marker, in the order of those lines, duplicates kept.
ParserTotality ==
    Parsed =>
        /\ run.rc = 0 => conflict = None
        /\ run.rc = 2 =>
              /\ Truthy(conflict)
              /\ conflict.recoverable = FALSE
              /\ conflict.message = "conflicting directory found"
              /\ FilesOf(conflict) = <<>>
        /\ run.rc \notin {0, 2} =>
              /\ Len(conflict.files) = Cardinality(MarkerLineStarts(run.stderr))
              /\ \A b \in MarkerLineStarts(run.stderr) :
                    conflict.files[Rank(MarkerLineStarts(run.stderr), b)]
                        = ConflictPath(target, LineAt(run.stderr, b))

\* C7 witness: a generic failure with a line without the marker and two
\* marker lines naming the same path, both kept
ParserTotalityWitness ==
    /\ Generic
    /\ Cardinality(LineStarts(run.stderr)) = 3
    /\ Len(conflict.files) = 2
    /\ conflict.files[1] = conflict.files[2]

\* C8 as the specification states it: marker lines that carry the path
\* right after the marker give the two paths under the target.
BareMarkerExtracted ==
    (Generic /\ run.stderr = BareMarkerText /\ target = Home) =>
        /\ conflict.files = <<"/home/u/.bashrc", "/home/u/.vimrc">>
        /\ conflict.recoverable
        /\ conflict.message =
              "unable to stow package \"" \o package[idx]
                  \o "\" to \"/home/u\"; conflicted files: "
                  \o "\"/home/u/.bashrc\", \"/home/u/.vimrc\""

\* C8 amended: the path of a marker line is what follows the last colon of
\* the line (the whole line when it has no colon), trimmed, and put under
\* the target directory unless it is absolute; marker lines that end in
\* ": .bashrc" and ": .vimrc" give the two paths under /home/u, in order,
\* in a recoverable report whose message lists them quoted and comma-joined.
ConflictPathsExtracted ==
    /\ Generic =>
          \A b \in MarkerLineStarts(run.stderr) :
              conflict.files[Rank(MarkerLineStarts(run.stderr), b)]
                  = Joined(target, Trimmed(Trailing(LineAt(run.stderr, b))))
    /\ (Generic /\ run.stderr = ColonMarkerText /\ target = Home) =>
          /\ conflict.files = <<"/home/u/.bashrc", "/home/u/.vimrc">>
          /\ conflict.recoverable
          /\ conflict.message =
                "unable to stow package \"" \o package[idx]
                    \o "\" to \"/home/u\"; conflicted files: "
                    \o "\"/home/u/.bashrc\", \"/home/u/.vimrc\""

\* C8 witness: the two colon lines have been parsed for /home/u
ConflictPathsWitness ==
    /\ Generic
    /\ run.stderr = ColonMarkerText
    /\ target = Home
    /\ conflict.files = <<"/home/u/.bashrc", "/home/u/.vimrc">>

\* C9: in every report of a conflict, files is non-empty exactly when the
\* report is recoverable.
RecoverableIffFiles ==
    (Parsed /\ Truthy(conflict)) =>
        (FilesOf(conflict) # <<>> <=> conflict.recoverable)

-----------------------------------------------------------------------------
(* Properties of stow() and main() *)

IsPurge(c) == c.op \in {"unlink", "remove"}
IsDryRun(c) ==
    c.op = "run_command" /\ c.arg = DryCmd(Cmd(state, package[c.idx], target))
IsCommit(c) ==
    c.op = "run_command" /\ c.arg = Cmd(state, package[c.idx], target)
CallsOf(i) == SelectSeq(calls, LAMBDA c : c.idx = i)

\* the report of package i: recorded once the package is finished
ReportOf(i) == IF i <= Len(outcomes) THEN outcomes[i].conflict ELSE conflict

\* C1: fail-fast list processing.  Once a package has ended Failed, the run
\* has reported that package's message and is over: the failed package is
\* the last one started and no external call belongs to a later package.
FailFast ==
    \A i \in 1..Len(outcomes) :
        outcomes[i].ret.error =>
            /\ pc = "failed"
            /\ result = [failed |-> TRUE, msg |-> outcomes[i].ret.message]
            /\ Len(outcomes) = i
            /\ idx = i
            /\ \A k \in 1..Len(calls) : calls[k].idx <= i

\* C1 witness: the first of two packages failed with the second untouched
FailFastWitness ==
    /\ pc = "failed"
    /\ Len(package) = 2
    /\ Len(outcomes) = 1
    /\ outcomes[1].ret.error
    /\ calls # <<>>

HardConflict ==
    Truthy(conflict) /\ (state # "supress" \/ ~conflict.recoverable)

\* C2: a conflict that is not to be purged (the state is not 'supress', or
\* the report is unrecoverable) makes stow() return the error with exactly
\* the report's message; the dry-run is the only external call made for the
\* package and the filesystem is as it was when the package was started.
ConflictFailsUntouched ==
    HardConflict =>
        /\ pc \in {"conflict", "ret", "failed"}
        /\ pc # "conflict" =>
              ret = [error |-> TRUE, message |-> conflict.message]
        /\ pc = "failed" => result.msg = conflict.message
        /\ Len(CallsOf(idx)) = 1
        /\ IsDryRun(CallsOf(idx)[1])
        /\ fs = fs0

\* C2 witness: under 'present' a recoverable conflict on a file that is
\* there has failed the package
ConflictFailsWitness ==
    /\ pc = "failed"
    /\ state = "present"
    /\ Truthy(conflict)
    /\ conflict.recoverable
    /\ conflict.files # <<>>
    /\ KindAt(fs, conflict.files[1]) = "file"

\* C3: a removal of the purge step has happened only under 'supress' and
\* only for a package whose dry-run report was a recoverable conflict; the
\* purge step is entered under the same condition only.
PurgeOnlySuppressedRecoverable ==
    /\ \A k \in 1..Len(calls) :
          IsPurge(calls[k]) =>
              /\ state = "supress"
              /\ Truthy(ReportOf(calls[k].idx))
              /\ ReportOf(calls[k].idx).recoverable
    /\ pc = "purge" =>
          state = "supress" /\ Truthy(conflict) /\ conflict.recoverable
    /\ (state # "supress" \/ (Truthy(conflict) /\ ~conflict.recoverable)) =>
          \A k \in 1..Len(CallsOf(idx)) : ~IsPurge(CallsOf(idx)[k])

\* C3 witness: the purge step has removed a file
PurgeWitness ==
    /\ \E k \in 1..Len(calls) : IsPurge(calls[k])
    /\ pc = "purge"
    /\ fs # fs0

PurgedOk ==
    /\ state = "supress"
    /\ Truthy(conflict)
    /\ conflict.recoverable
    /\ purge_i > Len(conflict.files)

\* C4: the suppressed-purge path.  After a purge without error the commit
\* is the next thing done, and what stow() returns is decided by the exit
\* code and the stderr of the commit alone: the commit-failure message, or
\* Done with the changed flag, never the message of the conflict.
SuppressedPurgeCommits ==
    PurgedOk =>
        /\ pc \in {"purge", "commit", "ret", "failed", "main", "exited"}
        /\ pc \notin {"purge", "commit"} =>
              /\ calls[Len(calls)] = Call("run_command", cmd)
              /\ \/ /\ ~ret.error
                    /\ ret.changed \in BOOLEAN
                 \/ /\ ret.error
                    /\ ret.message # conflict.message
                    /\ \E r \in RCs \ {0}, se \in CommitTexts :
                          ret.message = CommitFailMsg(cmd, r, se)
        /\ pc = "ret" =>
              /\ run # None
              /\ ret.error <=> run.rc # 0
              /\ ret.error =>
                    ret.message = CommitFailMsg(cmd, run.rc, run.stderr)
              /\ ~ret.error => (ret.changed <=> run.stderr # <<>>)

\* C4 witness: files were purged and the commit then succeeded with a change
SuppressedPurgeWitness ==
    /\ PurgedOk
    /\ pc = "ret"
    /\ Len(conflict.files) >= 1
    /\ ~ret.error
    /\ ret.changed

CommitReturned == pc = "ret" /\ run # None

\* C5: the outcome of the commit.  A non-zero exit code gives Failed
\* whatever the stderr; exit code 0 gives Done with changed true exactly
\* when the stderr text of the commit is not empty.
CommitOutcome ==
    CommitReturned =>
        /\ run.rc # 0 => ret.error
        /\ run.rc = 0 =>
              /\ ~ret.error
              /\ ret.changed <=> Render(run.stderr) # ""

\* C5 witness: a commit that exited 0 with text on stderr gave changed
CommitOutcomeWitness ==
    /\ CommitReturned
    /\ run.rc = 0
    /\ Render(run.stderr) # ""
    /\ ret = [error |-> FALSE, changed |-> TRUE]

\* C6: the aggregate changed flag.  The module exits only after the last
\* package, every package being Done, with changed the OR of the packages'
\* changed flags; nothing is reported before the run is over.
AggregateChanged ==
    /\ pc = "exited" =>
          /\ Len(outcomes) = Len(package)
          /\ \A i \in 1..Len(outcomes) : ~outcomes[i].ret.error
          /\ result = [failed |-> FALSE,
                       changed |-> \E i \in 1..Len(outcomes) :
                                       outcomes[i].ret.changed]
    /\ result # None => pc \in {"exited", "failed"}
    /\ pc = "failed" => result.failed

\* C6 witness: two packages, only the first changed, the run reports changed
AggregateChangedWitness ==
    /\ pc = "exited"
    /\ Len(package) = 2
    /\ outcomes[1].ret.changed
    /\ ~outcomes[2].ret.changed
    /\ result.changed

\* C10: idempotence.  With the idempotent oracle, a package that follows
\* itself in the list (stow() run twice in succession, nothing else touching
\* the filesystem) is Done with changed false the second time, whatever the
\* state.
SecondRunUnchanged ==
    \A i \in 2..Len(outcomes) :
        package[i] = package[i - 1] =>
            outcomes[i].ret = [error |-> FALSE, changed |-> FALSE]

\* C10 witness: under 'supress' the first run purged and changed, the
\* second run of the same package changed nothing
SecondRunWitness ==
    /\ Len(outcomes) = 2
    /\ package[1] = package[2]
    /\ state = "supress"
    /\ Truthy(outcomes[1].conflict)
    /\ outcomes[1].ret = [error |-> FALSE, changed |-> TRUE]
    /\ outcomes[2].ret = [error |-> FALSE, changed |-> FALSE]

-----------------------------------------------------------------------------
(* Properties of the purge *)

PurgeCallsOf(i) == SelectSeq(calls, LAMBDA c : c.idx = i /\ IsPurge(c))

\* the purge of the current package stopped on an error at position purge_i
PurgeFailed ==
    /\ state = "supress"
    /\ Truthy(conflict)
    /\ conflict.recoverable
    /\ pc \in {"ret", "failed"}
    /\ purge_i <= Len(conflict.files)

\* C11: the purge fails fast.  Files are removed in list order, and the
\* loop is past a position only when the removal there succeeded.  On the
\* first error, at position k, the purge stops: the message names the path
\* at k, the removals attempted are those of positions 1..k and no other,
\* the paths before k are gone and stay gone, every other path is as it was
\* when the package was started, and no commit or second purge follows.
PurgeFailFast ==
    /\ pc = "purge" =>
          /\ Len(PurgeCallsOf(idx)) = purge_i - 1
          /\ \A j \in 1..(purge_i - 1) :
                /\ PurgeCallsOf(idx)[j].arg = conflict.files[j]
                /\ KindAt(fs, conflict.files[j]) = "none"
    /\ PurgeFailed =>
          LET k == purge_i
              before == {conflict.files[j] : j \in 1..(k - 1)}
          IN  /\ Len(PurgeCallsOf(idx)) = k
              /\ \A j \in 1..k : PurgeCallsOf(idx)[j].arg = conflict.files[j]
              /\ Len(CallsOf(idx)) = k + 1
              /\ ret.error
              /\ \E denied \in BOOLEAN :
                    ret.message =
                        "unable to purge file \"" \o conflict.files[k]
                            \o "\"; error: "
                            \o RemoveError(fs, conflict.files[k], denied)
              /\ \A p \in DOMAIN fs :
                    fs[p] = IF p \in before THEN "none" ELSE fs0[p]
              /\ pc = "failed" => result.msg = ret.message

\* C11 witness: the first of two different files could not be removed and
\* the second, which is there, was left alone
PurgeFailFastWitness ==
    /\ PurgeFailed
    /\ pc = "failed"
    /\ purge_i = 1
    /\ Len(conflict.files) = 2
    /\ conflict.files[1] # conflict.files[2]
    /\ KindAt(fs, conflict.files[2]) \in {"file", "link"}

-----------------------------------------------------------------------------
(* Properties of the commands and of the filesystem *)

\* C12: the filesystem frame.  Only a step of the purge or the commit
\* changes the filesystem; the dry-run of a package is the base command
\* with " --no" appended and leaves the filesystem as it is; the commit is
\* the same base command without that flag.
FsFrame ==
    [][/\ fs' # fs => pc \in {"purge", "commit"}
       /\ pc = "dryrun" =>
             /\ fs' = fs
             /\ calls' = Append(calls, [op |-> "run_command",
                                        arg |-> cmd \o " --no",
                                        idx |-> idx])
       /\ pc = "commit" =>
             /\ calls' = Append(calls, [op |-> "run_command",
                                        arg |-> cmd,
                                        idx |-> idx])
             /\ CallsOf(idx)[1].arg = cmd \o " --no"
             /\ cmd' = cmd]_vars

\* C12 witness: a package whose only calls were the dry-run and the commit,
\* the commit having changed the filesystem
FsFrameWitness ==
    /\ pc = "ret"
    /\ Len(CallsOf(idx)) = 2
    /\ CallsOf(idx)[1].arg = CallsOf(idx)[2].arg \o " --no"
    /\ fs # fs0

\* the paths the purge of the current package has removed
PurgedNow == {conflict.files[j] : j \in 1..(purge_i - 1)}

\* the filesystem is as the earlier packages left it, but for the paths
\* the purge of the current package removed
FsAsLeft ==
    \A p \in DOMAIN fs : fs[p] = IF p \in PurgedNow THEN "none" ELSE fs0[p]

\* C13: no rollback across packages.  Between two packages the filesystem
\* does not change, so a package finds what the earlier ones left; once
\* stow() has returned an error the run makes no external call and changes
\* nothing, and ends with the filesystem as the earlier packages left it
\* but for what the purge of the failed package had removed.
NoRollback ==
    [][/\ pc \in {"ret", "main"} => fs' = fs /\ calls' = calls
       /\ (pc = "ret" /\ ret.error) => pc' = "failed"
       /\ pc # "failed"
       /\ pc' = "failed" => FsAsLeft']_vars

\* C13 witness: the second package failed; the link the commit of the
\* first package made, where the first package had purged, is still there
NoRollbackWitness ==
    /\ pc = "failed"
    /\ idx = 2
    /\ \E k \in 1..Len(calls) :
          /\ calls[k].idx = 1
          /\ IsPurge(calls[k])
          /\ KindAt(fs, calls[k].arg) = "stow"

\* the mode the specification gives each state
ModeOf(st) ==
    CASE st = "present" -> "--stow"
      [] st = "supress" -> "--stow"
      [] st = "absent"  -> "--delete"
      [] st = "latest"  -> "--restow"

\* the command line of a mode, a package and a target directory
CommandLine(mode, pkg, dir) ==
    "/usr/bin/stow " \o mode \o " " \o pkg \o " --target=" \o dir
        \o " --dir=/home/u/dotfiles --verbose"

\* C14: the mode mapping.  Every invocation of stow, dry-run and commit
\* alike, carries --stow under 'present' and 'supress', --delete under
\* 'absent' and --restow under 'latest'; 'present' and 'supress' give the
\* same command for the same package.
ModeMapping ==
    /\ \A k \in 1..Len(calls) :
          calls[k].op = "run_command" =>
              LET line == CommandLine(ModeOf(state), package[calls[k].idx],
                                      Render(target))
              IN  calls[k].arg \in {line, line \o " --no"}
    /\ \A p \in Packages :
          Cmd("present", p, target) = Cmd("supress", p, target)

\* C14 witness: under 'latest' the dry-run and the commit of pkgA both
\* carried --restow
ModeMappingWitness ==
    /\ state = "latest"
    /\ Len(calls) = 2
    /\ calls[1].arg = "/usr/bin/stow --restow pkgA --target=/home/u"
                          \o " --dir=/home/u/dotfiles --verbose --no"
    /\ calls[2].arg = "/usr/bin/stow --restow pkgA --target=/home/u"
                          \o " --dir=/home/u/dotfiles --verbose"

-----------------------------------------------------------------------------
(* The failure without marker lines *)

\* the report of the current package is recoverable and names no file
EmptyRecoverable ==
    Truthy(conflict) /\ conflict.recoverable /\ conflict.files = <<>>

\* C15: the ambiguous case.  A dry-run that exits neither 0 nor 2 and whose
\* stderr has no marker line gives a recoverable report with no files.
\* Under 'supress' the purge then removes nothing and raises nothing, and
\* the commit is the next and only other call of the package; under the
\* other states the package fails with the message of the report.
NoMarkerCase ==
    /\ (Generic /\ MarkerLineStarts(run.stderr) = {}) => EmptyRecoverable
    /\ (EmptyRecoverable /\ pc # "conflict") =>
          IF state = "supress"
          THEN /\ PurgeCallsOf(idx) = <<>>
               /\ pc \in {"purge", "commit", "ret", "failed", "main", "exited"}
               /\ pc \in {"purge", "commit"} =>
                     Len(CallsOf(idx)) = 1 /\ fs = fs0
               /\ pc \notin {"purge", "commit"} =>
                     /\ Len(CallsOf(idx)) = 2
                     /\ IsDryRun(CallsOf(idx)[1])
                     /\ IsCommit(CallsOf(idx)[2])
                     /\ ret.error =>
                           \E r \in RCs \ {0}, se \in CommitTexts :
                               ret.message = CommitFailMsg(cmd, r, se)
          ELSE /\ pc \in {"ret", "failed"}
               /\ ret = [error |-> TRUE, message |-> conflict.message]
               /\ Len(CallsOf(idx)) = 1
               /\ fs = fs0

\* C15 witness: under 'supress' a failure without marker lines was followed
\* by the commit, nothing having been purged
NoMarkerWitness ==
    /\ EmptyRecoverable
    /\ state = "supress"
    /\ pc = "ret"
    /\ Len(CallsOf(idx)) = 2
    /\ IsCommit(CallsOf(idx)[2])

-----------------------------------------------------------------------------
(* Order of the steps *)

\* C16: the order of the steps, none of them repeated.  The calls of a
\* package start with its one dry-run; the removals of its one purge
\* follow, one per file of the report and in the report's order; its one
\* commit, if any, is its last call; and every call of a package comes
\* before every call of the next package.
StepOrder ==
    /\ \A k, l \in 1..Len(calls) : k < l => calls[k].idx <= calls[l].idx
    /\ pc = "dryrun" => CallsOf(idx) = <<>>
    /\ \A i \in 1..idx :
          LET cs == CallsOf(i)
          IN  /\ (i < idx \/ pc # "dryrun") =>
                    Len(cs) >= 1 /\ IsDryRun(cs[1])
              /\ \A j \in 2..Len(cs) :
                    /\ ~IsDryRun(cs[j])
                    /\ IsCommit(cs[j]) \/ IsPurge(cs[j])
                    /\ IsCommit(cs[j]) => j = Len(cs)
                    /\ IsPurge(cs[j]) =>
                          /\ j - 1 <= Len(ReportOf(i).files)
                          /\ cs[j].arg = ReportOf(i).files[j - 1]
    /\ pc \in {"conflict", "purge", "commit"} =>
          \A j \in 1..Len(CallsOf(idx)) : ~IsCommit(CallsOf(idx)[j])
    /\ pc = "commit" => Len(CallsOf(idx)) >= 1

\* C16 witness: the first package went through dry-run, two removals and
\* commit, and the second package has had its dry-run
StepOrderWitness ==
    /\ idx = 2
    /\ Len(CallsOf(1)) = 4
    /\ IsPurge(CallsOf(1)[2])
    /\ IsPurge(CallsOf(1)[3])
    /\ IsCommit(CallsOf(1)[4])
    /\ Len(CallsOf(2)) = 1

-----------------------------------------------------------------------------
(* Termination *)

\* The run from every state, every package list and a filesystem holding,
\* at each path, nothing, a file, or the link of stow: the kinds that make
\* a removal fail, a removal succeed and a commit a no-op.  Every external
\* call returns and the program takes its next step.
InitFair == Init /\ fs \in [Paths -> {"none", "file", "stow"}]

SpecFair == InitFair /\ [][Next]_vars /\ WF_vars(Next)

Terminated == pc \in {"exited", "failed"}

\* the one result: a message and nothing else, or a changed flag and
\* nothing else
OneResult ==
    \/ /\ pc = "failed"
       /\ DOMAIN result = {"failed", "msg"}
       /\ result.failed
       /\ result.msg = outcomes[Len(outcomes)].ret.message
       /\ \A i \in 1..(Len(outcomes) - 1) : ~outcomes[i].ret.error
    \/ /\ pc = "exited"
       /\ DOMAIN result = {"failed", "changed"}
       /\ ~result.failed
       /\ result.changed \in BOOLEAN

\* C17: a single terminal result.  With every external call returning, the
\* run ends; when it has ended exactly one result is out, the message of
\* the first failing package or the aggregate changed flag; no result is
\* out before the end and the result never changes.
SingleResult ==
    /\ <>Terminated
    /\ [](Terminated => OneResult)
    /\ [](result # None => Terminated)
    /\ [][result # None => result' = result]_vars

\* C17 witness: the run ended by failing on its second package
SingleResultWitness ==
    /\ pc = "failed"
    /\ Len(outcomes) = 2
    /\ result.msg = outcomes[2].ret.message

-----------------------------------------------------------------------------
(* Duplicate conflict paths *)

HasDuplicate(files) ==
    \E i, j \in 1..Len(files) : i < j /\ files[i] = files[j]

\* the first position of the list holding a path seen earlier in the list
SecondOccurrence(files) ==
    CHOOSE j \in 1..Len(files) :
        /\ \E i \in 1..(j - 1) : files[i] = files[j]
        /\ \A k \in 1..(j - 1) : \A i \in 1..(k - 1) : files[i] # files[k]

\* the purge is given a list that names a path twice
DuplicateReport ==
    /\ state = "supress"
    /\ Truthy(conflict)
    /\ conflict.recoverable
    /\ HasDuplicate(conflict.files)

NoSuchFile(path) == "[Errno 2] No such file or directory: '" \o path \o "'"

\* C18 as stated: with a path named twice, the package always ends with the
\* first occurrence removed and the second raising "no such file" for that
\* path, the commit never attempted.
DuplicateSecondRaises ==
    (DuplicateReport /\ pc \in {"ret", "failed"}) =>
        LET files == conflict.files
            k == SecondOccurrence(files)
        IN  /\ purge_i = k
            /\ KindAt(fs, files[k]) = "none"
            /\ KindAt(fs0, files[k]) # "none"
            /\ ret.error
            /\ ret.message = PurgeFailMsg(files[k], NoSuchFile(files[k]))
            /\ \A n \in 1..Len(CallsOf(idx)) : ~IsCommit(CallsOf(idx)[n])

\* C18: duplicate conflict paths.  With a path named twice in the files of
\* a recoverable report under 'supress', the commit is never attempted and
\* the package ends Failed with a purge error, raised at or before the
\* second occurrence.  When the loop gets as far as the second occurrence,
\* the first occurrence was removed and the second raises "no such file"
\* for that path; it stops earlier only when an earlier removal itself
\* failed, with that removal's error.
DuplicateFailsPurge ==
    DuplicateReport =>
        LET files == conflict.files
            k == SecondOccurrence(files)
        IN  /\ pc # "commit"
            /\ \A n \in 1..Len(CallsOf(idx)) : ~IsCommit(CallsOf(idx)[n])
            /\ pc \in {"purge", "ret", "failed"} => purge_i <= k
            /\ pc \in {"ret", "failed"} =>
                /\ ret.error
                /\ \E denied \in BOOLEAN :
                       ret.message = PurgeFailMsg(files[purge_i],
                                        RemoveError(fs, files[purge_i], denied))
                /\ Len(PurgeCallsOf(idx)) = purge_i
                /\ purge_i = k =>
                    /\ KindAt(fs, files[k]) = "none"
                    /\ KindAt(fs0, files[k]) \in {"file", "link", "stow"}
                    /\ ret.message = PurgeFailMsg(files[k], NoSuchFile(files[k]))
                /\ purge_i < k =>
                    KindAt(fs, files[purge_i]) = KindAt(fs0, files[purge_i])
            /\ pc = "failed" => result = [failed |-> TRUE, msg |-> ret.message]

\* reached: the same path twice, the first removed, the second not found
DuplicateFailsPurgeWitness ==
    /\ DuplicateReport
    /\ pc = "failed"
    /\ Len(conflict.files) = 2
    /\ purge_i = 2
    /\ Len(PurgeCallsOf(idx)) = 2
    /\ KindAt(fs0, conflict.files[1]) = "file"
    /\ KindAt(fs, conflict.files[1]) = "none"
    /\ result.msg = PurgeFailMsg(conflict.files[2], NoSuchFile(conflict.files[2]))

-----------------------------------------------------------------------------
(* Purge confinement *)

\* path a is path b or leads to it
IsPrefix(a, b) == Len(a) <= Len(b) /\ SubSeq(b, 1, Len(a)) = a

\* C19: purge confinement.  Every entry of a recoverable report's files,
\* the paths the purge goes on to remove, is the target directory followed
\* by the segment of its marker line, whatever text the dry-run returns, a
\* segment that is itself an absolute path included.
PurgeConfined ==
    (Generic /\ conflict.recoverable) =>
        \A b \in MarkerLineStarts(run.stderr) :
            LET seg == Trimmed(Trailing(LineAt(run.stderr, b)))
                path == PathJoin(target, seg)
            IN  /\ conflict.files[Rank(MarkerLineStarts(run.stderr), b)]
                       = Render(path)
                /\ IsPrefix(target, path)

====
